---- MODULE Spec2Model ----
(***************************************************************************)
(* Model of kasa.smartdimmer.SmartDimmer (src/kasa/smartdimmer.py).        *)
(*                                                                         *)
(* The state is the system-info mapping of one device (the mapping the     *)
(* properties of SmartDimmer read through self.sys_info) together with a   *)
(* record of the last operation invoked on the SmartDimmer object: its     *)
(* arguments, the mapping it started from, the exception it raised (if     *)
(* any), the _query_helper calls it dispatched and the SmartPlug methods   *)
(* it delegated to.  The model starts after the first update(), as the     *)
(* test fixtures do.                                                       *)
(***************************************************************************)
EXTENDS Integers, Sequences, FiniteSets, TLC

VARIABLES sys_info, last

vars == <<sys_info, last>>

(***************************************************************************)
(* Python values that reach the brightness and transition parameters.      *)
(* A value carries its type so that isinstance(x, int) and truthiness are  *)
(* computed as Python computes them; num/den is the numeric value.         *)
(***************************************************************************)
IntV(n) == [type |-> "int", num |-> n, den |-> 1]

FloatHalf == [type |-> "float", num |-> 1, den |-> 2]

None == [type |-> "NoneType", num |-> 0, den |-> 1]

\* isinstance(x, int)
IsInt(x) == x.type = "int"

\* bool(x): None and 0 are falsy, every other number is truthy
Truthy(x) == x.type /= "NoneType" /\ x.num /= 0

\* Largest transition duration enumerated contiguously (milliseconds)
MaxDuration == 2

\* The duration used by the tests (test_dimmer.py: transition=1000)
TestDuration == 1000

MaxBrightness == 100

\* Brightness arguments: both ends of 0..100, interior values, the values
\* test_dimmer.py uses (99, -1, 101, 0.5) and the scenario values (50, 70)
BrightnessArgs ==
    {IntV(n) : n \in {-1, 0, 1, 50, 70, 99, MaxBrightness, MaxBrightness + 1}}
        \cup {FloatHalf}

\* Transition arguments: absent, the invalid values of test_dimmer.py
\* (-1, 0, 0.5) and positive integers
TransitionArgs ==
    {None, FloatHalf} \cup {IntV(n) : n \in (-1 .. MaxDuration) \cup {TestDuration}}

\* Brightness values a device may report in its system info
ReportedBrightness == {0, 1, 50, 70, MaxBrightness}

DIMMER_SERVICE == "smartlife.iot.dimmer"

----------------------------------------------------------------------------
(***************************************************************************)
(* Results of a method: the exception raised ("ok" when none), the         *)
(* _query_helper calls dispatched, the SmartPlug methods delegated to, and *)
(* the value returned by a property read.                                  *)
(***************************************************************************)
Raise(exc) ==
    [outcome |-> exc, calls |-> <<>>, generic |-> <<>>, ret |-> <<>>, flag |-> <<>>]

Query(method, params) ==
    [outcome |-> "ok",
     calls   |-> <<[service |-> DIMMER_SERVICE, method |-> method, params |-> params]>>,
     generic |-> <<>>, ret |-> <<>>, flag |-> <<>>]

Super(method) ==
    [outcome |-> "ok", calls |-> <<>>, generic |-> <<method>>, ret |-> <<>>, flag |-> <<>>]

Return(v) ==
    [outcome |-> "ok", calls |-> <<>>, generic |-> <<>>, ret |-> <<v>>, flag |-> <<>>]

ReturnFlag(f) ==
    [outcome |-> "ok", calls |-> <<>>, generic |-> <<>>, ret |-> <<>>, flag |-> <<f>>]

\* SmartDimmer.is_dimmable: "brightness" in sys_info
is_dimmable(info) == "brightness" \in DOMAIN info

\* SmartDimmer.brightness
brightness(info) ==
    IF ~is_dimmable(info)
    THEN Raise("SmartDeviceException")
    ELSE Return(info.brightness)

\* SmartDimmer.set_dimmer_transition
set_dimmer_transition(b, transition) ==
    IF ~IsInt(b) THEN Raise("ValueError")
    ELSE IF ~(0 <= b.num /\ b.num <= MaxBrightness) THEN Raise("ValueError")
    ELSE IF ~IsInt(transition) THEN Raise("ValueError")
    ELSE IF transition.num <= 0 THEN Raise("ValueError")
    ELSE Query("set_dimmer_transition",
               [brightness |-> b.num, duration |-> transition.num])

\* set_brightness with the capability check placed after argument validation
set_brightness_gate_late(info, b, transition) ==
    IF ~IsInt(b) THEN Raise("ValueError")
    ELSE IF ~(0 < b.num /\ b.num <= MaxBrightness) THEN Raise("ValueError")
    ELSE IF ~is_dimmable(info) THEN Raise("SmartDeviceException")
    ELSE IF Truthy(transition) THEN set_dimmer_transition(b, transition)
    ELSE Query("set_brightness", [brightness |-> b.num])

\* set_brightness with the upper end of the range check missing
set_brightness_no_upper(info, b, transition) ==
    IF ~is_dimmable(info) THEN Raise("SmartDeviceException")
    ELSE IF ~IsInt(b) THEN Raise("ValueError")
    ELSE IF ~(0 < b.num) THEN Raise("ValueError")
    ELSE IF Truthy(transition) THEN set_dimmer_transition(b, transition)
    ELSE Query("set_brightness", [brightness |-> b.num])

\* SmartDimmer.set_brightness
set_brightness(info, b, transition) ==
    IF ~is_dimmable(info) THEN Raise("SmartDeviceException")
    ELSE IF ~IsInt(b) THEN Raise("ValueError")
    ELSE IF ~(0 < b.num /\ b.num <= MaxBrightness) THEN Raise("ValueError")
    ELSE IF Truthy(transition) THEN set_dimmer_transition(b, transition)
    ELSE Query("set_brightness", [brightness |-> b.num])

\* turn_off that also falls through to the generic turn-off after the ramp
turn_off_also_generic(transition) ==
    IF Truthy(transition)
    THEN LET r == set_dimmer_transition(IntV(0), transition)
         IN  IF r.outcome = "ok" THEN [r EXCEPT !.generic = <<"turn_off">>] ELSE r
    ELSE Super("turn_off")

\* SmartDimmer.turn_off
turn_off(transition) ==
    IF Truthy(transition)
    THEN set_dimmer_transition(IntV(0), transition)
    ELSE Super("turn_off")

\* SmartDimmer.turn_on
turn_on(info, transition) ==
    IF Truthy(transition)
    THEN LET c == brightness(info)
         IN  IF c.outcome /= "ok" THEN c
             ELSE set_dimmer_transition(IntV(c.ret[1]), transition)
    ELSE Super("turn_on")

\* SmartDimmer.state_information: info["Brightness"] = self.brightness
state_information(info) == brightness(info)

----------------------------------------------------------------------------
(***************************************************************************)
(* The device behind _query_helper and SmartPlug.  A device without the    *)
(* dimmer module leaves its system info untouched.                         *)
(***************************************************************************)
DeviceCall(info, call) ==
    IF ~is_dimmable(info) THEN info
    ELSE IF call.method = "set_brightness"
    THEN [info EXCEPT !.brightness = call.params.brightness]
    ELSE IF call.params.brightness = 0
    THEN [info EXCEPT !.relay_state = 0]
    ELSE [info EXCEPT !.relay_state = 1, !.brightness = call.params.brightness]

DeviceGeneric(info, method) ==
    [info EXCEPT !.relay_state = IF method = "turn_on" THEN 1 ELSE 0]

\* System info after the device has processed everything a method sent
Effect(info, r) ==
    LET called == IF r.calls /= <<>> THEN DeviceCall(info, r.calls[1]) ELSE info
    IN  IF r.generic /= <<>> THEN DeviceGeneric(called, r.generic[1]) ELSE called

Done(op, b, transition, r) ==
    /\ last' = [op |-> op, brightness |-> b, transition |-> transition,
                pre |-> sys_info, outcome |-> r.outcome, calls |-> r.calls,
                generic |-> r.generic, ret |-> r.ret, flag |-> r.flag]
    /\ sys_info' = Effect(sys_info, r)

----------------------------------------------------------------------------
Init ==
    /\ sys_info \in
          {[relay_state |-> s] : s \in {0, 1}}
             \cup {[relay_state |-> s, brightness |-> b] :
                      s \in {0, 1}, b \in ReportedBrightness}
    /\ last = [op |-> "none", brightness |-> None, transition |-> None,
               pre |-> sys_info, outcome |-> "ok", calls |-> <<>>,
               generic |-> <<>>, ret |-> <<>>, flag |-> <<>>]

IsDimmable == Done("is_dimmable", None, None, ReturnFlag(is_dimmable(sys_info)))

Brightness == Done("brightness", None, None, brightness(sys_info))

SetBrightness ==
    \E b \in BrightnessArgs, t \in TransitionArgs :
        Done("set_brightness", b, t, set_brightness(sys_info, b, t))

SetDimmerTransition ==
    \E b \in BrightnessArgs, t \in TransitionArgs \ {None} :
        Done("set_dimmer_transition", b, t, set_dimmer_transition(b, t))

TurnOff ==
    \E t \in TransitionArgs : Done("turn_off", None, t, turn_off(t))

TurnOn ==
    \E t \in TransitionArgs : Done("turn_on", None, t, turn_on(sys_info, t))

StateInformation ==
    Done("state_information", None, None, state_information(sys_info))

Next ==
    \/ IsDimmable
    \/ Brightness
    \/ SetBrightness
    \/ SetDimmerTransition
    \/ TurnOff
    \/ TurnOn
    \/ StateInformation

Spec == Init /\ [][Next]_vars

----------------------------------------------------------------------------
(***************************************************************************)
(* Vocabulary of the properties.  Every property speaks about the last     *)
(* operation: last.pre is the system info it started from, sys_info the    *)
(* system info after it returned or raised.                                *)
(***************************************************************************)
Dimmable == is_dimmable(last.pre)

InRange(b) == IsInt(b) /\ 0 <= b.num /\ b.num <= MaxBrightness

Positive(t) == IsInt(t) /\ t.num > 0

TransitionCall(b, t) ==
    [service |-> DIMMER_SERVICE, method |-> "set_dimmer_transition",
     params |-> [brightness |-> b, duration |-> t]]

BrightnessCall(b) ==
    [service |-> DIMMER_SERVICE, method |-> "set_brightness",
     params |-> [brightness |-> b]]

NoRemoteCall == last.calls = <<>> /\ last.generic = <<>>

\* C1: on a dimmable device, set_brightness(b, transition=t) with b in
\* 0..100 (0 included) and t a positive integer dispatches exactly one call,
\* set_dimmer_transition {brightness: b, duration: t}.
C1_TransitionDispatch ==
    (/\ last.op = "set_brightness"
     /\ Dimmable
     /\ InRange(last.brightness)
     /\ Positive(last.transition))
        => last.calls = <<TransitionCall(last.brightness.num, last.transition.num)>>

\* C2: on a dimmable device, set_brightness(1, transition=t) raises
\* ValueError and dispatches nothing for t = -1, t = 0 and t = 0.5.
C2_InvalidTransitionRejected ==
    (/\ last.op = "set_brightness"
     /\ Dimmable
     /\ last.brightness = IntV(1)
     /\ last.transition \in {IntV(-1), IntV(0), FloatHalf})
        => (last.outcome = "ValueError" /\ NoRemoteCall)

\* C3: on a dimmable device, set_brightness(b) without a transition, b in
\* 0..100 (0 included), dispatches exactly one call, set_brightness
\* {brightness: b}, and brightness read afterwards returns b.
C3_PlainSetAndReadBack ==
    (/\ last.op = "set_brightness"
     /\ Dimmable
     /\ InRange(last.brightness)
     /\ last.transition = None)
        => (/\ last.calls = <<BrightnessCall(last.brightness.num)>>
            /\ brightness(sys_info).ret = <<last.brightness.num>>)

\* C4: while the system info lacks the "brightness" key, no operation
\* returns a brightness value and no call carrying a brightness parameter
\* is dispatched.
C4_CapabilityGate ==
    ~Dimmable =>
        (/\ last.ret = <<>>
         /\ \A i \in 1 .. Len(last.calls) :
               "brightness" \notin DOMAIN last.calls[i].params)

\* C5: when the system info lacks the "brightness" key, is_dimmable is
\* false, and brightness and set_brightness (any arguments) raise
\* SmartDeviceException without dispatching anything.
C5_NotDimmableRejected ==
    ~Dimmable =>
        (/\ last.op = "is_dimmable" => last.flag = <<FALSE>>
         /\ last.op \in {"brightness", "set_brightness"} =>
               (last.outcome = "SmartDeviceException" /\ NoRemoteCall))

\* C5 witness: set_brightness with an invalid brightness and an invalid
\* transition on a device that is not dimmable was rejected for the
\* missing capability.
C5_Witness ==
    /\ last.op = "set_brightness"
    /\ ~Dimmable
    /\ last.brightness = FloatHalf
    /\ last.transition = IntV(-1)
    /\ last.outcome = "SmartDeviceException"

\* C6: on a dimmable device, set_brightness(b) with b not an integer or an
\* integer outside 0..100 raises ValueError, dispatches nothing and leaves
\* brightness and power state as they were.
C6_InvalidBrightnessRejected ==
    (/\ last.op = "set_brightness"
     /\ Dimmable
     /\ last.transition = None
     /\ ~InRange(last.brightness))
        => (/\ last.outcome = "ValueError"
            /\ NoRemoteCall
            /\ sys_info = last.pre)

\* C6 witness: set_brightness(101) on a dimmable device that is on raised.
C6_Witness ==
    /\ last.op = "set_brightness"
    /\ Dimmable
    /\ last.pre.relay_state = 1
    /\ last.transition = None
    /\ last.brightness = IntV(MaxBrightness + 1)
    /\ last.outcome = "ValueError"

\* C7: on a dimmable device in any power state, after
\* set_brightness(b, transition=t) with t a positive integer the device is
\* on with brightness b when b is in 1..100 and off when b = 0.
C7_RampEndState ==
    (/\ last.op = "set_brightness"
     /\ Dimmable
     /\ InRange(last.brightness)
     /\ Positive(last.transition))
        => IF last.brightness.num = 0
           THEN sys_info.relay_state = 0
           ELSE /\ sys_info.relay_state = 1
                /\ brightness(sys_info).ret = <<last.brightness.num>>

\* C8: turn_off(transition=t) with t a positive integer dispatches exactly
\* one call, set_dimmer_transition {brightness: 0, duration: t}, and does
\* not invoke the generic turn-off; turn_off() without a transition invokes
\* the generic turn-off once and dispatches no dimmer call.
C8_TurnOff ==
    last.op = "turn_off" =>
        (/\ Positive(last.transition) =>
               (/\ last.calls = <<TransitionCall(0, last.transition.num)>>
                /\ last.generic = <<>>)
         /\ last.transition = None =>
               (/\ last.generic = <<"turn_off">>
                /\ last.calls = <<>>))

\* C8 witness: turn_off(transition=1000) dispatched its single ramp call.
C8_Witness ==
    /\ last.op = "turn_off"
    /\ last.transition = IntV(TestDuration)
    /\ Len(last.calls) = 1
    /\ last.calls[1].method = "set_dimmer_transition"

\* C9: turn_on(transition=t) with a transition given has the outcome and
\* the dispatched call of set_dimmer_transition(c, t), c the brightness in
\* the system info at call time; turn_on() without a transition invokes
\* the generic turn-on once and dispatches no dimmer call.
C9_TurnOnEquivalence ==
    (last.op = "turn_on" /\ Dimmable) =>
        (/\ last.transition /= None =>
               LET r == set_dimmer_transition(IntV(last.pre.brightness),
                                              last.transition)
               IN  /\ last.outcome = r.outcome
                   /\ last.calls = r.calls
                   /\ last.generic = r.generic
         /\ last.transition = None =>
               (/\ last.generic = <<"turn_on">>
                /\ last.calls = <<>>))

\* C10: on a dimmable device whose brightness is any value in 0..100, every
\* turn_on that completes without error, with or without a transition,
\* leaves the device powered on.
C10_TurnOnPowersOn ==
    (/\ last.op = "turn_on"
     /\ Dimmable
     /\ last.pre.brightness \in 0 .. MaxBrightness
     /\ last.outcome = "ok")
        => sys_info.relay_state = 1

====
